---- MODULE Spec2Model ----
(***************************************************************************)
(* Model of scripts/crop_qr.py: trim_whitespace (Operation A), the         *)
(* threshold trim of process_image (Operation B) and the module-level      *)
(* driver loop over the two fixed QR-code assets.                          *)
(*                                                                         *)
(* An image is a record [kind, mode, w, h, px]; px is the row-major        *)
(* sequence of its pixels and a pixel is the tuple of its channel bytes.   *)
(* Pixel (x, y), 0-based as in PIL, is px[y * w + x + 1].                  *)
(***************************************************************************)
EXTENDS Integers, Sequences, FiniteSets, TLC

VARIABLES
    getbbox_alpha_only, \* the installed Pillow's Image.getbbox default for RGBA
    fs,                 \* the file system: path -> file
    fs0,                \* history: the file system when the script started
    out,                \* console: the sequence of printed lines
    idx,                \* number of filenames the for loop has taken
    pc,                 \* position of the script
    img, cropped, bbox, \* locals of process_image
    exc,                \* the exception being handled, and the line that raised it
    writes,             \* history: path -> number of writes to the file
    tw_pc, tw_arg, tw_im, tw_diff, tw_bbox, tw_ret,   \* trim_whitespace applied to tw_im
    th_pc, th_im, th_gray, th_bw, th_inv, th_bbox     \* lines 26-31 applied to th_im

driver_vars == <<fs, fs0, out, idx, pc, img, cropped, bbox, exc, writes>>
tw_vars == <<tw_pc, tw_arg, tw_im, tw_diff, tw_bbox, tw_ret>>
th_vars == <<th_pc, th_im, th_gray, th_bw, th_inv, th_bbox>>
vars == <<getbbox_alpha_only, driver_vars, tw_vars, th_vars>>

(***************************************************************************)
(* Bounds of the model.                                                    *)
(***************************************************************************)
\* largest w * h of an image handed to trim_whitespace / the threshold trim
MaxArea == 6
\* largest w * h of an image file on the modelled disk
FileMaxArea == 2

(***************************************************************************)
(* Arithmetic helpers.                                                     *)
(***************************************************************************)
Abs(n) == IF n < 0 THEN -n ELSE n

Min(S) == CHOOSE m \in S : \A n \in S : m <= n

Max(S) == CHOOSE m \in S : \A n \in S : m >= n

\* Pillow's CHOP macro: the result of a channel operation saturates to a byte
Clip(n) == IF n <= 0 THEN 0 ELSE IF n >= 255 THEN 255 ELSE n

(***************************************************************************)
(* Images.                                                                 *)
(***************************************************************************)
None == <<>>

NoImage == [kind |-> "none", mode |-> "", w |-> 0, h |-> 0, px |-> <<>>]

MkImage(mode, w, h, px) == [kind |-> "image", mode |-> mode, w |-> w, h |-> h, px |-> px]

\* im.getpixel((x, y))
GetPixel(im, x, y) == im.px[y * im.w + x + 1]

\* Image.new(mode, size, color)
ImageNew(mode, w, h, color) == MkImage(mode, w, h, [k \in 1..(w * h) |-> color])

\* ImageChops.difference(a, b): abs(a - b) on every channel byte
ChopDifference(a, b) ==
    MkImage(a.mode, a.w, a.h,
            [k \in 1..Len(a.px) |->
                [c \in 1..Len(a.px[k]) |-> Clip(Abs(a.px[k][c] - b.px[k][c]))]])

\* ImageChops.add(a, b, scale, offset): (a + b) / scale + offset on every channel
\* byte, truncated to an integer and saturated.  A negative quotient saturates to 0
\* whichever way it is rounded.
ChopAdd(a, b, scale, offset) ==
    MkImage(a.mode, a.w, a.h,
            [k \in 1..Len(a.px) |->
                [c \in 1..Len(a.px[k]) |->
                    Clip(((a.px[k][c] + b.px[k][c]) \div scale) + offset)]])

\* The channels Image.getbbox() looks at.  Pillow releases whose getbbox trims an
\* image with an alpha channel by transparency look at alpha alone; the others look
\* at every channel.
BBoxMask(im) ==
    IF im.mode = "RGBA" /\ getbbox_alpha_only THEN {4}
    ELSE IF im.mode \in {"RGBA", "RGB"} THEN 1..Len(im.px[1])
    ELSE {1}

\* indices of the pixels getbbox counts as non-zero
NonZero(im) == {k \in 1..Len(im.px) : \E c \in BBoxMask(im) : im.px[k][c] # 0}

\* the bounding box (left, upper, right, lower) of a set of pixel indices
BoxOf(im, S) ==
    IF S = {} THEN None
    ELSE LET xs == {(k - 1) % im.w : k \in S}
             ys == {(k - 1) \div im.w : k \in S}
         IN  <<Min(xs), Min(ys), Max(xs) + 1, Max(ys) + 1>>

\* im.getbbox(): None when no pixel is non-zero
GetBBox(im) == BoxOf(im, NonZero(im))

\* Crop with the origin one column too far right
CropShifted(im, box) ==
    LET cw == box[3] - box[1]
        ch == box[4] - box[2]
        At(k) == LET x == box[1] + 1 + ((k - 1) % cw)
                     y == box[2] + ((k - 1) \div cw)
                 IN  IF x >= 0 /\ x < im.w /\ y >= 0 /\ y < im.h
                     THEN GetPixel(im, x, y)
                     ELSE [c \in 1..Len(im.px[1]) |-> 0]
    IN  MkImage(im.mode, cw, ch, [k \in 1..(cw * ch) |-> At(k)])

\* im.crop((left, upper, right, lower)); pixels outside im are zero
Crop(im, box) ==
    LET cw == box[3] - box[1]
        ch == box[4] - box[2]
        At(k) == LET x == box[1] + ((k - 1) % cw)
                     y == box[2] + ((k - 1) \div cw)
                 IN  IF x >= 0 /\ x < im.w /\ y >= 0 /\ y < im.h
                     THEN GetPixel(im, x, y)
                     ELSE [c \in 1..Len(im.px[1]) |-> 0]
    IN  MkImage(im.mode, cw, ch, [k \in 1..(cw * ch) |-> At(k)])

(***************************************************************************)
(* trim_whitespace (Operation A), lines 5-12.                              *)
(***************************************************************************)
\* TrimDiff with the sum of line 8 not divided: 2 * diff - 100
TrimDiffDoubled(im) ==
    LET bg == ImageNew(im.mode, im.w, im.h, GetPixel(im, 0, 0))
        diff == ChopDifference(im, bg)
    IN  ChopAdd(diff, diff, 1, -100)

\* TrimDiff with the reference image of line 6 left at Image.new's default colour
TrimDiffBlack(im) ==
    LET bg == ImageNew(im.mode, im.w, im.h, [c \in 1..Len(im.px[1]) |-> 0])
        diff == ChopDifference(im, bg)
    IN  ChopAdd(diff, diff, 2, -100)

\* lines 6-8: the difference to the top-left colour, noise removed
TrimDiff(im) ==
    LET bg == ImageNew(im.mode, im.w, im.h, GetPixel(im, 0, 0))
        diff == ChopDifference(im, bg)
    IN  ChopAdd(diff, diff, 2, -100)

trim_whitespace(im) ==
    LET tbox == GetBBox(TrimDiff(im))
    IN  IF tbox # None THEN Crop(im, tbox) ELSE im

(***************************************************************************)
(* The threshold trim (Operation B) of process_image, lines 26-31.         *)
(***************************************************************************)
\* img.convert("L") of an RGB(A) image: ITU-R 601-2 luma in 16-bit fixed point,
\* alpha ignored
ConvertL(im) ==
    MkImage("L", im.w, im.h,
            [k \in 1..Len(im.px) |->
                <<(im.px[k][1] * 19595 + im.px[k][2] * 38470 + im.px[k][3] * 7471 + 32768)
                    \div 65536>>])

\* Lut with the comparison of line 28 not strict
LutInclusive(x) == IF x <= 200 THEN 0 ELSE 255

\* line 28: the lambda handed to gray.point
Lut(x) == IF x < 200 THEN 0 ELSE 255

\* gray.point(Lut, '1'): every pixel through the table, no dithering
Point(gray) ==
    MkImage("1", gray.w, gray.h, [k \in 1..Len(gray.px) |-> <<Lut(gray.px[k][1])>>])

\* ImageChops.invert(bw)
ChopInvert(bw) ==
    MkImage(bw.mode, bw.w, bw.h,
            [k \in 1..Len(bw.px) |-> [c \in 1..Len(bw.px[k]) |-> 255 - bw.px[k][c]]])

\* lines 26-31
ThresholdBBox(im) == GetBBox(ChopInvert(Point(ConvertL(im))))

(***************************************************************************)
(* Input images.                                                           *)
(***************************************************************************)
White == <<255, 255, 255, 255>>
Black == <<0, 0, 0, 255>>
Clear == <<255, 255, 255, 0>>
Grey(x) == <<x, x, x, 255>>

Shapes(area) == {s \in (1..area) \X (1..area) : s[1] * s[2] <= area}

\* im is an image of the mode, of at most area pixels, each of a colour of palette
IsImage(im, mode, palette, area) ==
    \E s \in Shapes(area) : \E p \in [1..(s[1] * s[2]) -> palette] :
        im = MkImage(mode, s[1], s[2], p)

\* im is a background pixel beside one that differs from it in one channel
IsTrimProbe(im) ==
    \E b \in {White, Black} : \E c \in 1..4 : \E v \in 0..255 :
        im = MkImage("RGBA", 2, 1, <<b, [b EXCEPT ![c] = v]>>)

\* im is a white pixel beside, or above, a grey one of any luminance
IsThresholdProbe(im) ==
    \E s \in {<<2, 1>>, <<1, 2>>} : \E x \in 0..255 :
        im = MkImage("RGBA", s[1], s[2], <<White, Grey(x)>>)

(***************************************************************************)
(* trim_whitespace applied to an image, and again to what it returned.     *)
(***************************************************************************)
TrimIdle ==
    /\ tw_pc = "idle" /\ tw_arg = NoImage /\ tw_im = NoImage
    /\ tw_diff = NoImage /\ tw_bbox = None /\ tw_ret = NoImage

ThresholdIdle ==
    /\ th_pc = "idle" /\ th_im = NoImage /\ th_gray = NoImage
    /\ th_bw = NoImage /\ th_inv = NoImage /\ th_bbox = None

DriverIdle ==
    /\ fs = <<>> /\ fs0 = <<>> /\ out = <<>> /\ idx = 0 /\ pc = "idle"
    /\ img = NoImage /\ cropped = NoImage /\ bbox = None
    /\ exc = None /\ writes = <<>>

TrimInit ==
    /\ getbbox_alpha_only \in BOOLEAN
    /\ \/ IsImage(tw_arg, "RGBA", {White, Black, Clear, Grey(155)}, MaxArea)
       \/ IsTrimProbe(tw_arg)
    /\ tw_pc = "input" /\ tw_im = NoImage
    /\ tw_diff = NoImage /\ tw_bbox = None /\ tw_ret = NoImage
    /\ ThresholdIdle /\ DriverIdle

\* one call trim_whitespace(im): the locals diff and bbox, and the value returned
TrimApply(im) ==
    /\ tw_im' = im
    /\ tw_diff' = TrimDiff(im)
    /\ tw_bbox' = GetBBox(TrimDiff(im))
    /\ tw_ret' = trim_whitespace(im)

TrimCall ==
    /\ tw_pc = "input"
    /\ TrimApply(tw_arg)
    /\ tw_pc' = "once"
    /\ UNCHANGED <<getbbox_alpha_only, tw_arg, th_vars, driver_vars>>

TrimAgain ==
    /\ tw_pc = "once"
    /\ TrimApply(tw_ret)
    /\ tw_pc' = "twice"
    /\ UNCHANGED <<getbbox_alpha_only, tw_arg, th_vars, driver_vars>>

TrimNext == TrimCall \/ TrimAgain

SpecTrim == TrimInit /\ [][TrimNext]_vars

(***************************************************************************)
(* Lines 26-31 applied to an image.                                        *)
(***************************************************************************)
ThresholdInit ==
    /\ getbbox_alpha_only \in BOOLEAN
    /\ \/ IsImage(th_im, "RGBA", {White, Black, Grey(199), Grey(200)}, MaxArea)
       \/ IsThresholdProbe(th_im)
    /\ th_pc = "input" /\ th_gray = NoImage
    /\ th_bw = NoImage /\ th_inv = NoImage /\ th_bbox = None
    /\ TrimIdle /\ DriverIdle

ThresholdGray ==
    /\ th_pc = "input"
    /\ th_gray' = ConvertL(th_im)
    /\ th_pc' = "gray"
    /\ UNCHANGED <<getbbox_alpha_only, th_im, th_bw, th_inv, th_bbox, tw_vars, driver_vars>>

ThresholdPoint ==
    /\ th_pc = "gray"
    /\ th_bw' = Point(th_gray)
    /\ th_pc' = "bw"
    /\ UNCHANGED <<getbbox_alpha_only, th_im, th_gray, th_inv, th_bbox, tw_vars, driver_vars>>

ThresholdInvert ==
    /\ th_pc = "bw"
    /\ th_inv' = ChopInvert(th_bw)
    /\ th_pc' = "inv"
    /\ UNCHANGED <<getbbox_alpha_only, th_im, th_gray, th_bw, th_bbox, tw_vars, driver_vars>>

ThresholdGetBBox ==
    /\ th_pc = "inv"
    /\ th_bbox' = GetBBox(th_inv)
    /\ th_pc' = "bbox"
    /\ UNCHANGED <<getbbox_alpha_only, th_im, th_gray, th_bw, th_inv, tw_vars, driver_vars>>

ThresholdNext == ThresholdGray \/ ThresholdPoint \/ ThresholdInvert \/ ThresholdGetBBox

SpecThreshold == ThresholdInit /\ [][ThresholdNext]_vars

(***************************************************************************)
(* The files on disk.                                                      *)
(***************************************************************************)
\* line 48
assets_dir == "src/assets/community"

\* line 49: the list the for loop iterates
filenames == <<"feishu-qr.png", "wecom-qr.png">>

\* os.path.join(a, b) on a POSIX system
PathJoin(a, b) == a \o "/" \o b

\* line 50, for the k-th filename
PathOf(k) == PathJoin(assets_dir, filenames[k])

\* line 50: the path of the current iteration
file_path == PathOf(idx)

Paths == {PathOf(k) : k \in 1..Len(filenames)}

\* no file at the path
Missing == [kind |-> "missing", mode |-> "", w |-> 0, h |-> 0, px |-> <<>>]
\* a file that is no image: Image.open cannot identify it
Garbage == [kind |-> "garbage", mode |-> "", w |-> 0, h |-> 0, px |-> <<>>]
\* an image file cut short: Image.open reads its header, loading its pixels fails
Truncated == [kind |-> "truncated", mode |-> "", w |-> 0, h |-> 0, px |-> <<>>]

\* A file is identified with the image it decodes to (PNG is lossless).
Images(mode, palette, area) ==
    UNION {{MkImage(mode, s[1], s[2], p) : p \in [1..(s[1] * s[2]) -> palette]} :
           s \in Shapes(area)}

FileStates ==
    {Missing, Garbage, Truncated}
        \cup Images("RGBA", {White, Black, Clear}, FileMaxArea)
        \cup Images("RGB", {<<255, 255, 255>>, <<0, 0, 0>>}, FileMaxArea)

\* Exists with the test of line 51 dropped
ExistsAlways(path) == path \in DOMAIN fs

\* line 51: os.path.exists(path)
Exists(path) == fs[path].kind # "missing"

\* line 17: img.convert("RGBA"); an image without alpha becomes opaque
ConvertRGBA(im) ==
    IF im.mode = "RGBA" THEN im
    ELSE MkImage("RGBA", im.w, im.h, [k \in 1..Len(im.px) |-> Append(im.px[k], 255)])

\* The names bound when process_image runs: the module's imports, functions and
\* assignments (lines 2-5, 14, 48-50).  No line assigns `padding`.
ModuleGlobals ==
    {"os", "Image", "ImageChops", "trim_whitespace", "process_image",
     "assets_dir", "filename", "file_path"}

Exception(type, msg, line) == [type |-> type, msg |-> msg, line |-> line]

(***************************************************************************)
(* The script: the driver loop (lines 48-54) and process_image (14-46).    *)
(***************************************************************************)
Init ==
    /\ getbbox_alpha_only \in BOOLEAN
    /\ fs \in [Paths -> FileStates]
    /\ fs0 = fs
    /\ out = <<>>
    /\ idx = 0
    /\ pc = "for"
    /\ img = NoImage /\ cropped = NoImage /\ bbox = None
    /\ exc = None
    /\ writes = [p \in Paths |-> 0]
    /\ TrimIdle /\ ThresholdIdle

\* an exception raised inside the try block of process_image transfers to line 45
Raise(e) ==
    /\ exc' = e
    /\ pc' = "except"

\* process_image returns to the loop; its locals are gone
Return ==
    /\ img' = NoImage /\ cropped' = NoImage /\ bbox' = None
    /\ exc' = None
    /\ pc' = "for"

\* lines 49-52: the next filename exists, process_image is called
CallProcessImage ==
    /\ pc = "for" /\ idx < Len(filenames)
    /\ Exists(PathOf(idx + 1))
    /\ idx' = idx + 1
    /\ pc' = "open"
    /\ UNCHANGED <<getbbox_alpha_only, fs, fs0, out, img, cropped, bbox, exc, writes,
                   tw_vars, th_vars>>

\* lines 49-54: the next filename does not exist
PrintNotFound ==
    /\ pc = "for" /\ idx < Len(filenames)
    /\ ~Exists(PathOf(idx + 1))
    /\ idx' = idx + 1
    /\ out' = Append(out, "File not found: " \o PathOf(idx + 1))
    /\ UNCHANGED <<getbbox_alpha_only, fs, fs0, pc, img, cropped, bbox, exc, writes,
                   tw_vars, th_vars>>

\* line 49: the list is exhausted, the script ends
Exit ==
    /\ pc = "for" /\ idx = Len(filenames)
    /\ pc' = "exit"
    /\ UNCHANGED <<getbbox_alpha_only, fs, fs0, out, idx, img, cropped, bbox, exc, writes,
                   tw_vars, th_vars>>

\* line 16: Image.open(path) reads the header
Open ==
    /\ pc = "open"
    /\ LET f == fs[file_path]
       IN  IF f.kind = "missing"
           THEN /\ Raise(Exception("FileNotFoundError",
                                   "[Errno 2] No such file or directory: '"
                                       \o file_path \o "'", 16))
                /\ UNCHANGED img
           ELSE IF f.kind = "garbage"
           THEN /\ Raise(Exception("UnidentifiedImageError",
                                   "cannot identify image file '" \o file_path \o "'", 16))
                /\ UNCHANGED img
           ELSE /\ img' = f
                /\ pc' = "convert"
                /\ UNCHANGED exc
    /\ UNCHANGED <<getbbox_alpha_only, fs, fs0, out, idx, cropped, bbox, writes,
                   tw_vars, th_vars>>

\* line 17: convert loads the pixels
Convert ==
    /\ pc = "convert"
    /\ IF img.kind = "truncated"
       THEN /\ Raise(Exception("OSError", "image file is truncated", 17))
            /\ UNCHANGED img
       ELSE /\ img' = ConvertRGBA(img)
            /\ pc' = "trim"
            /\ UNCHANGED exc
    /\ UNCHANGED <<getbbox_alpha_only, fs, fs0, out, idx, cropped, bbox, writes,
                   tw_vars, th_vars>>

\* Trim with Operation A's result saved as soon as it is computed
TrimSavesEarly ==
    /\ pc = "trim"
    /\ cropped' = trim_whitespace(img)
    /\ fs' = [fs EXCEPT ![file_path] = trim_whitespace(img)]
    /\ writes' = [writes EXCEPT ![file_path] = @ + 1]
    /\ pc' = "threshold"
    /\ UNCHANGED <<getbbox_alpha_only, fs0, out, idx, img, bbox, exc, tw_vars, th_vars>>

\* line 20: Operation A
Trim ==
    /\ pc = "trim"
    /\ cropped' = trim_whitespace(img)
    /\ pc' = "threshold"
    /\ UNCHANGED <<getbbox_alpha_only, fs, fs0, out, idx, img, bbox, exc, writes,
                   tw_vars, th_vars>>

\* lines 26-33: Operation B's bounding box, and the test of it
Threshold ==
    /\ pc = "threshold"
    /\ bbox' = ThresholdBBox(img)
    /\ pc' = IF ThresholdBBox(img) # None THEN "pad" ELSE "save"
    /\ UNCHANGED <<getbbox_alpha_only, fs, fs0, out, idx, img, cropped, exc, writes,
                   tw_vars, th_vars>>

\* lines 35-41: lines 35 and 36 unpack bbox and img.size; line 37 reads the global
\* `padding`, which is not bound, before anything is assigned
Pad ==
    /\ pc = "pad"
    /\ "padding" \notin ModuleGlobals
    /\ Raise(Exception("NameError", "name 'padding' is not defined", 37))
    /\ UNCHANGED <<getbbox_alpha_only, fs, fs0, out, idx, img, cropped, bbox, writes,
                   tw_vars, th_vars>>

\* Save writing img, the untrimmed image, in place of cropped
SaveUntrimmed ==
    /\ pc = "save"
    /\ fs' = [fs EXCEPT ![file_path] = img]
    /\ writes' = [writes EXCEPT ![file_path] = @ + 1]
    /\ pc' = "print"
    /\ UNCHANGED <<getbbox_alpha_only, fs0, out, idx, img, cropped, bbox, exc,
                   tw_vars, th_vars>>

\* line 43: cropped.save(path) writes the file
Save ==
    /\ pc = "save"
    /\ fs' = [fs EXCEPT ![file_path] = cropped]
    /\ writes' = [writes EXCEPT ![file_path] = @ + 1]
    /\ pc' = "print"
    /\ UNCHANGED <<getbbox_alpha_only, fs0, out, idx, img, cropped, bbox, exc,
                   tw_vars, th_vars>>

\* line 43: cropped.save(path) fails: the file cannot be opened for writing and
\* stays as it was, or the write breaks off and leaves it cut short
SaveFails ==
    /\ pc = "save"
    /\ \/ /\ Raise(Exception("PermissionError",
                             "[Errno 13] Permission denied: '" \o file_path \o "'", 43))
          /\ UNCHANGED <<fs, writes>>
       \/ /\ Raise(Exception("OSError", "[Errno 28] No space left on device", 43))
          /\ fs' = [fs EXCEPT ![file_path] = Truncated]
          /\ writes' = [writes EXCEPT ![file_path] = @ + 1]
    /\ UNCHANGED <<getbbox_alpha_only, fs0, out, idx, img, cropped, bbox, tw_vars, th_vars>>

\* line 44, and the return
PrintProcessed ==
    /\ pc = "print"
    /\ out' = Append(out, "Processed " \o file_path)
    /\ Return
    /\ UNCHANGED <<getbbox_alpha_only, fs, fs0, idx, writes, tw_vars, th_vars>>

\* Except with a `raise` after the print: the exception leaves process_image and
\* the loop, and the script ends with it
ExceptReraises ==
    /\ pc = "except"
    /\ out' = Append(out, "Error processing " \o file_path \o ": " \o exc.msg)
    /\ pc' = "exit"
    /\ UNCHANGED <<getbbox_alpha_only, fs, fs0, idx, img, cropped, bbox, exc, writes,
                   tw_vars, th_vars>>

\* Except with the success notice printed after the try statement, on both paths
ExceptThenProcessed ==
    /\ pc = "except"
    /\ out' = out \o <<"Error processing " \o file_path \o ": " \o exc.msg,
                       "Processed " \o file_path>>
    /\ Return
    /\ UNCHANGED <<getbbox_alpha_only, fs, fs0, idx, writes, tw_vars, th_vars>>

\* lines 45-46: the handler prints the error, and the return
Except ==
    /\ pc = "except"
    /\ out' = Append(out, "Error processing " \o file_path \o ": " \o exc.msg)
    /\ Return
    /\ UNCHANGED <<getbbox_alpha_only, fs, fs0, idx, writes, tw_vars, th_vars>>

Next ==
    \/ CallProcessImage \/ PrintNotFound \/ Exit
    \/ Open \/ Convert \/ Trim \/ Threshold \/ Pad \/ Save \/ SaveFails \/ PrintProcessed \/ Except

Spec == Init /\ [][Next]_vars

(***************************************************************************)
(* Properties of trim_whitespace and of the threshold trim.                *)
(***************************************************************************)
\* box is the smallest rectangle of im holding the pixels of S; None when S is empty
IsTightBox(box, im, S) ==
    IF S = {} THEN box = None
    ELSE /\ box # None
         /\ \A k \in S : /\ box[1] <= (k - 1) % im.w /\ (k - 1) % im.w < box[3]
                         /\ box[2] <= (k - 1) \div im.w /\ (k - 1) \div im.w < box[4]
         /\ \E k \in S : (k - 1) % im.w = box[1]
         /\ \E k \in S : (k - 1) % im.w = box[3] - 1
         /\ \E k \in S : (k - 1) \div im.w = box[2]
         /\ \E k \in S : (k - 1) \div im.w = box[4] - 1

\* pixel index k of im lies inside box
InBox(box, im, k) ==
    /\ box # None
    /\ box[1] <= (k - 1) % im.w /\ (k - 1) % im.w < box[3]
    /\ box[2] <= (k - 1) \div im.w /\ (k - 1) \div im.w < box[4]

\* ink pixels of the image under the threshold trim: luminance below 200
InkPixels == {k \in 1..Len(th_gray.px) : th_gray.px[k][1] < 200}

\* C6: a pixel is ink (0 after the table, non-zero after the inversion, counted by
\* the bounding box) if and only if its luminance is below 200; a grey pixel's
\* luminance is its grey level, so 199 is ink and 200 is background.
C6_ThresholdBoundary ==
    /\ th_pc \in {"gray", "bw", "inv", "bbox"} =>
          \A k \in 1..Len(th_im.px) :
              th_im.px[k][1] = th_im.px[k][2] /\ th_im.px[k][2] = th_im.px[k][3]
                  => th_gray.px[k][1] = th_im.px[k][1]
    /\ th_pc \in {"bw", "inv", "bbox"} =>
          \A k \in 1..Len(th_gray.px) :
              /\ th_bw.px[k][1] = 0 <=> th_gray.px[k][1] < 200
              /\ th_bw.px[k][1] = 255 <=> th_gray.px[k][1] >= 200
    /\ th_pc \in {"inv", "bbox"} =>
          \A k \in 1..Len(th_gray.px) : th_inv.px[k][1] # 0 <=> th_gray.px[k][1] < 200
    /\ th_pc = "bbox" => IsTightBox(th_bbox, th_im, InkPixels)

\* a pixel of luminance 199 inside the box and one of luminance 200 outside it
C6_Witness ==
    /\ th_pc = "bbox"
    /\ \E k \in 1..Len(th_gray.px) : th_gray.px[k][1] = 199 /\ InBox(th_bbox, th_im, k)
    /\ \E k \in 1..Len(th_gray.px) : th_gray.px[k][1] = 200 /\ ~InBox(th_bbox, th_im, k)

\* channel c of pixel k of the image under trim_whitespace: its distance to the
\* top-left pixel's
ChannelDiff(k, c) == Abs(tw_im.px[k][c] - GetPixel(tw_im, 0, 0)[c])

\* C7 as amended: a channel difference d becomes clamp((d + d) / 2.0 - 100), that is
\* d - 100 above 100 and zero up to 100; a pixel counts for the bounding box exactly
\* when a channel getbbox looks at differs from the background by more than 100.
C7_NoiseSuppression ==
    tw_pc \in {"once", "twice"} =>
        /\ \A k \in 1..Len(tw_im.px) : \A c \in 1..Len(tw_im.px[k]) :
              tw_diff.px[k][c] =
                  IF ChannelDiff(k, c) > 100 THEN ChannelDiff(k, c) - 100 ELSE 0
        /\ IsTightBox(tw_bbox, tw_im,
                      {k \in 1..Len(tw_im.px) :
                          \E c \in BBoxMask(tw_im) : ChannelDiff(k, c) > 100})
        /\ \A k \in NonZero(tw_diff) :
              \E c \in 1..Len(tw_im.px[k]) : ChannelDiff(k, c) > 100

\* a difference of 101 survives as 1 and makes the box
C7_Witness ==
    /\ tw_pc = "once"
    /\ tw_bbox # None
    /\ \E k \in 1..Len(tw_im.px) : \E c \in BBoxMask(tw_im) :
          ChannelDiff(k, c) = 101 /\ tw_diff.px[k][c] = 1

\* C7 as claimed: clamp(2.0 * d - 100), a pixel counting exactly when some channel
\* differs by more than 50.
C7_Claimed ==
    tw_pc \in {"once", "twice"} =>
        /\ \A k \in 1..Len(tw_im.px) : \A c \in 1..Len(tw_im.px[k]) :
              tw_diff.px[k][c] = Clip(2 * ChannelDiff(k, c) - 100)
        /\ IsTightBox(tw_bbox, tw_im,
                      {k \in 1..Len(tw_im.px) :
                          \E c \in 1..Len(tw_im.px[k]) : ChannelDiff(k, c) > 50})

\* the image trim_whitespace was re-applied to has the first input's top-left colour
TrimmedKeepsBackground ==
    /\ tw_pc = "twice"
    /\ GetPixel(tw_im, 0, 0) = GetPixel(tw_arg, 0, 0)

FullExtent(im) == <<0, 0, im.w, im.h>>

\* C8 as amended: when T = trim_whitespace(I) keeps I's top-left colour, trimming T
\* again returns T unchanged; the box it computes is T's full extent, or undefined
\* when I itself had no box (T is then I).
C8_Idempotence ==
    TrimmedKeepsBackground =>
        /\ tw_ret = tw_im
        /\ IF GetBBox(TrimDiff(tw_arg)) = None
           THEN tw_bbox = None /\ tw_im = tw_arg
           ELSE tw_bbox = FullExtent(tw_im)

\* the first trim cropped, and the second found the full extent
C8_Witness ==
    /\ TrimmedKeepsBackground
    /\ tw_im # tw_arg
    /\ tw_bbox = FullExtent(tw_im)
    /\ tw_ret = tw_im

\* C8 as claimed: the second box is always T's full extent.
C8_Claimed ==
    TrimmedKeepsBackground => tw_bbox = FullExtent(tw_im) /\ tw_ret = tw_im

\* C9: a uniform image has an all-zero difference image, no box, and is returned
\* as it is; any result is the input or the crop of it to a box inside its bounds.
C9_UniformUnchanged ==
    tw_pc \in {"once", "twice"} =>
        /\ (\A k \in 1..Len(tw_im.px) : tw_im.px[k] = tw_im.px[1]) =>
              /\ \A k \in 1..Len(tw_diff.px) : \A c \in 1..Len(tw_diff.px[k]) :
                    tw_diff.px[k][c] = 0
              /\ tw_bbox = None
              /\ tw_ret = tw_im
        /\ tw_pc = "once" => tw_im = tw_arg
        /\ \/ tw_bbox = None /\ tw_ret = tw_im
           \/ /\ tw_bbox # None
              /\ 0 <= tw_bbox[1] /\ tw_bbox[1] < tw_bbox[3] /\ tw_bbox[3] <= tw_im.w
              /\ 0 <= tw_bbox[2] /\ tw_bbox[2] < tw_bbox[4] /\ tw_bbox[4] <= tw_im.h
              /\ tw_ret.mode = tw_im.mode
              /\ tw_ret.w = tw_bbox[3] - tw_bbox[1]
              /\ tw_ret.h = tw_bbox[4] - tw_bbox[2]
              /\ Len(tw_ret.px) = tw_ret.w * tw_ret.h
              /\ \A x \in 0..(tw_ret.w - 1) : \A y \in 0..(tw_ret.h - 1) :
                    GetPixel(tw_ret, x, y)
                        = GetPixel(tw_im, tw_bbox[1] + x, tw_bbox[2] + y)

\* a uniform image of several pixels came back as it went in
C9_Witness ==
    /\ tw_pc = "once"
    /\ Len(tw_im.px) > 1
    /\ \A k \in 1..Len(tw_im.px) : tw_im.px[k] = tw_im.px[1]
    /\ tw_ret = tw_arg

(***************************************************************************)
(* Properties of the script.                                               *)
(***************************************************************************)
\* process_image is running
InCall == pc \in {"open", "convert", "trim", "threshold", "pad", "save", "print", "except"}

\* the loop is through with the k-th file
Handled(k) == idx > k \/ (idx = k /\ ~InCall)

ProcessedLine(p) == "Processed " \o p

NotFoundLine(p) == "File not found: " \o p

\* the errors raised before line 43: open, convert, the padding
EarlyErrors(p) ==
    {"[Errno 2] No such file or directory: '" \o p \o "'",
     "cannot identify image file '" \o p \o "'",
     "image file is truncated",
     "name 'padding' is not defined"}

\* the errors raised by the save of line 43
SaveErrors(p) ==
    {"[Errno 13] Permission denied: '" \o p \o "'", "[Errno 28] No space left on device"}

ErrorLines(p, msgs) == {"Error processing " \o p \o ": " \o m : m \in msgs}

AnyErrorLines(p) == ErrorLines(p, EarlyErrors(p) \cup SaveErrors(p))

Printed == {out[j] : j \in 1..Len(out)}

\* the RGBA image process_image decoded from the k-th file as the script found it
Decoded(k) == ConvertRGBA(fs0[PathOf(k)])

Files == 1..Len(filenames)

\* the lines of the script still ahead, at most: a step of the script lowers it
Remaining ==
    10 * (Len(filenames) - idx)
        + CASE pc = "open" -> 9 [] pc = "convert" -> 8 [] pc = "trim" -> 7
            [] pc = "threshold" -> 6 [] pc = "pad" -> 5 [] pc = "save" -> 4
            [] pc = "print" -> 3 [] pc = "except" -> 2 [] pc = "for" -> 1
            [] pc = "exit" -> 0

C1_Contained ==
    /\ exc # None => pc = "except"
    /\ pc = "exit" => /\ exc = None
                      /\ idx = Len(filenames)
                      /\ Len(out) = Len(filenames)
                      /\ \A k \in Files :
                            out[k] \in {ProcessedLine(PathOf(k)), NotFoundLine(PathOf(k))}
                                           \cup AnyErrorLines(PathOf(k))
    /\ \/ pc = "exit"
       \/ pc \in {"trim", "threshold"}     \* Trim and Threshold ask nothing else
       \/ ENABLED (CallProcessImage \/ PrintNotFound \/ Exit \/ Open \/ Convert \/ Pad
                      \/ Save \/ SaveFails \/ PrintProcessed \/ Except)

\* C1: an exception exists only on its way to the handler of line 45; the script
\* ends only after the loop took both filenames, with a line for each; until it
\* has ended it can always take a step, and every step brings the end nearer.
C1_FailureContainment == [](C1_Contained) /\ [][Remaining' < Remaining]_vars

\* the first file failed in the save, the second was handled, the script ended
C1_Witness ==
    /\ pc = "exit"
    /\ out[1] \in ErrorLines(PathOf(1), SaveErrors(PathOf(1)))
    /\ out[2] \in {ProcessedLine(PathOf(2))} \cup AnyErrorLines(PathOf(2))

\* the file Operation B's clamped, padded box would leave
PaddedCrop(im, box, p) ==
    Crop(im, << Max({0, box[1] - p}), Max({0, box[2] - p}),
                Min({im.w, box[3] + p}), Min({im.h, box[4] + p}) >>)

\* C2 as claimed: once process_image is through with a decodable file holding a pixel
\* of luminance below 200, the file is the RGBA image cropped to the box padded by
\* some fixed p >= 0 and clamped, and 'Processed <path>' is printed.  (A padding
\* beyond the image's larger side crops like that side.)
C2_Claimed ==
    \A k \in Files :
        Handled(k) /\ fs0[PathOf(k)].kind = "image" /\ ThresholdBBox(Decoded(k)) # None
            => /\ out[k] = ProcessedLine(PathOf(k))
               /\ \E p \in 0..Max({Decoded(k).w, Decoded(k).h}) :
                     fs[PathOf(k)] = PaddedCrop(Decoded(k), ThresholdBBox(Decoded(k)), p)

\* C3: for a path with no file, process_image is never running, no file appears,
\* the only line about the path is 'File not found: <path>', and the loop goes on
\* to its end.
C3_MissingFile ==
    \A k \in Files :
        fs0[PathOf(k)].kind = "missing" =>
            /\ ~(InCall /\ idx = k)
            /\ fs[PathOf(k)] = Missing
            /\ writes[PathOf(k)] = 0
            /\ idx = k => exc = None
            /\ Handled(k) => Len(out) >= k /\ out[k] = NotFoundLine(PathOf(k))
            /\ ProcessedLine(PathOf(k)) \notin Printed
            /\ Printed \cap AnyErrorLines(PathOf(k)) = {}
            /\ pc = "exit" => idx = Len(filenames) /\ Len(out) = Len(filenames)

\* the first file was missing and the second was processed
C3_Witness ==
    /\ pc = "exit"
    /\ fs0[PathOf(1)].kind = "missing"
    /\ out = <<NotFoundLine(PathOf(1)), ProcessedLine(PathOf(2))>>

C4_Lines ==
    /\ Len(out) <= Len(filenames)
    /\ \A j \in 1..Len(out) :
          out[j] \in {ProcessedLine(PathOf(j)), NotFoundLine(PathOf(j))}
                         \cup AnyErrorLines(PathOf(j))
    /\ \A k \in Files :
          ~(ProcessedLine(PathOf(k)) \in Printed /\ Printed \cap AnyErrorLines(PathOf(k)) # {})
    /\ pc = "exit" => Len(out) = Len(filenames)
    /\ InCall => Len(out) = idx - 1
    /\ pc = "for" => Len(out) = idx
    /\ idx <= 1 => fs[PathOf(2)] = fs0[PathOf(2)]

\* C4: at most one line per file, in list order, each of the three forms, never a
\* success and an error line for one file, two lines when the script ends; the
\* first file's line is out before process_image runs on the second, the second
\* file is untouched until then and the first untouched from then on.
C4_ConsoleProtocol ==
    [](C4_Lines) /\ [][idx = 2 => fs'[PathOf(1)] = fs[PathOf(1)]]_vars

\* an error line for the first file, then a success line for the second
C4_Witness ==
    /\ pc = "exit"
    /\ out[1] \in AnyErrorLines(PathOf(1))
    /\ out[2] = ProcessedLine(PathOf(2))
    /\ fs[PathOf(2)] # fs0[PathOf(2)]

\* C5: Operation A runs before Operation B; a file without a pixel of luminance
\* below 200 is saved as trim_whitespace of its RGBA image; a file with one is
\* never written.
C5_FallbackOrder ==
    /\ pc = "trim" => cropped = NoImage /\ bbox = None
    /\ pc = "threshold" => cropped = trim_whitespace(img) /\ bbox = None
    /\ pc \in {"save", "print"} => cropped = trim_whitespace(img)
    /\ \A k \in Files :
          fs0[PathOf(k)].kind = "image" =>
              IF ThresholdBBox(Decoded(k)) = None
              THEN ProcessedLine(PathOf(k)) \in Printed
                       => fs[PathOf(k)] = trim_whitespace(Decoded(k))
              ELSE writes[PathOf(k)] = 0 /\ fs[PathOf(k)] = fs0[PathOf(k)]

\* a file without a box was saved, and Operation A had cropped it
C5_Witness ==
    /\ Handled(1)
    /\ fs0[PathOf(1)].kind = "image"
    /\ ThresholdBBox(Decoded(1)) = None
    /\ out[1] = ProcessedLine(PathOf(1))
    /\ fs[PathOf(1)] = trim_whitespace(Decoded(1))
    /\ fs[PathOf(1)].w * fs[PathOf(1)].h < Decoded(1).w * Decoded(1).h

\* C10: a file is written at most once; up to line 43 it is as the script found
\* it; the success notice follows the write; an error raised before line 43
\* leaves the file as it was, and a file with an error line has no success line.
C10_UnchangedOnError ==
    /\ \A p \in Paths : writes[p] <= 1
    /\ pc \in {"open", "convert", "trim", "threshold", "pad", "save"} =>
          fs[file_path] = fs0[file_path] /\ writes[file_path] = 0
    /\ pc = "print" => fs[file_path] = cropped /\ writes[file_path] = 1
    /\ pc = "except" /\ exc.line # 43 =>
          fs[file_path] = fs0[file_path] /\ writes[file_path] = 0
    /\ \A p \in Paths :
          /\ Printed \cap ErrorLines(p, EarlyErrors(p)) # {} =>
                fs[p] = fs0[p] /\ writes[p] = 0
          /\ Printed \cap AnyErrorLines(p) # {} => ProcessedLine(p) \notin Printed
          /\ ProcessedLine(p) \in Printed => writes[p] = 1

\* the padding's NameError was reported for an image file, which is as it was
C10_Witness ==
    /\ Handled(1)
    /\ fs0[PathOf(1)].kind = "image"
    /\ out[1] = "Error processing " \o PathOf(1) \o ": name 'padding' is not defined"
    /\ fs[PathOf(1)] = fs0[PathOf(1)]

====
